---- MODULE Spec2Model ----
(***************************************************************************)
(* toolenv: the provisioning pipeline of main.go (setup, loadEnv,          *)
(* normalizeSystem, buildURL, installTool, generateActivationScript) and   *)
(* the shell semantics of the activation script it writes.                 *)
(*                                                                         *)
(* Strings are sequences of atoms.  An atom is a run of characters that    *)
(* the code never looks inside; the characters the code does look at       *)
(* (".", "/", the double quote, ":", a template action) are atoms of       *)
(* their own.                                                              *)
(***************************************************************************)
EXTENDS Integers, Sequences, FiniteSets, TLC

\* ------------------------------------------------------------------ bounds
MaxTools == 2
MaxRuns == 2

\* ----------------------------------------------------------------- helpers
RECURSIVE Flatten(_)
Flatten(ss) == IF ss = <<>> THEN <<>> ELSE Head(ss) \o Flatten(Tail(ss))

Range(s) == {s[k] : k \in 1..Len(s)}

Nil == "nil"

\* ------------------------------------------------ Platform Normalizer (125)
GOOSValues == {"linux", "darwin"}
GOARCHValues == {"amd64", "arm64"}
MappedArch == {"x64", "aarch64"}
MappedOS == {"macos", "gnu"}

PartialMaps(D, R) == UNION {[S -> R] : S \in SUBSET D}

\* a *ToolNormalization: nil, or the two maps (a map yaml leaves out is the
\* nil map, which answers every lookup with ok = false)
NoNormalization == [present |-> FALSE, Arch |-> <<>>, OS |-> <<>>]
Normalizations ==
    {NoNormalization} \cup
    [present : {TRUE},
     Arch : PartialMaps(GOARCHValues, MappedArch), OS : PartialMaps(GOOSValues, MappedOS)]

\* a joint (os, arch) lookup, which the code does not do: both axes are
\* replaced only when both have an entry
normalizeSystemJoint(spec, goos, goarch) ==
    IF ~spec.present THEN <<goos, goarch>>
    ELSE IF goarch \in DOMAIN spec.Arch /\ goos \in DOMAIN spec.OS
         THEN <<spec.OS[goos], spec.Arch[goarch]>>
         ELSE <<goos, goarch>>

\* returns <<os_name, arch>>
normalizeSystem(spec, goos, goarch) ==
    LET arch0 == goarch
        os0 == goos
    IN  IF spec.present
        THEN LET arch1 == IF arch0 \in DOMAIN spec.Arch THEN spec.Arch[arch0] ELSE arch0
                 os1 == IF os0 \in DOMAIN spec.OS THEN spec.OS[os0] ELSE os0
             IN  <<os1, arch1>>
        ELSE <<os0, arch0>>

\* ---------------------------------------------------- Template Resolver
\* A template is a sequence of lexed items: text atoms and {{...}} actions.
FieldActions == {"{{.version}}", "{{.os}}", "{{.arch}}", "{{.nokey}}"}
UnclosedAction == "{{"
BadFieldAction == "{{.version.x}}"

FieldOf(a) ==
    CASE a = "{{.version}}" -> "version"
      [] a = "{{.os}}" -> "os"
      [] a = "{{.arch}}" -> "arch"
      [] OTHER -> "nokey"

\* template.New(..).Parse: an unclosed action is a parse error
ParseOK(t) == \A k \in 1..Len(t) : t[k] # UnclosedAction

\* tmpl.Execute on a map[string]string: a key the map lacks yields the zero
\* value "", a field of a string value is an execution error
ExecuteOK(t) == \A k \in 1..Len(t) : t[k] # BadFieldAction

Execute(t, data) ==
    Flatten([k \in 1..Len(t) |->
        IF t[k] \in FieldActions
        THEN IF FieldOf(t[k]) \in DOMAIN data THEN data[FieldOf(t[k])] ELSE <<>>
        ELSE <<t[k]>>])

TemplateErr(t) ==
    IF ~ParseOK(t) THEN "parse" ELSE IF ~ExecuteOK(t) THEN "exec" ELSE Nil

\* buildURL: [err, url]
buildURL(template_string, version, os_name, arch) ==
    IF TemplateErr(template_string) # Nil
    THEN [err |-> TemplateErr(template_string), url |-> <<>>]
    ELSE [err |-> Nil,
          url |-> Execute(template_string,
                          [version |-> version, os |-> <<os_name>>, arch |-> <<arch>>])]

\* ------------------------------------------------------------- manifest
\* A Tool (main.go:26): Name and Version are strings, URL a template, Env a
\* map from variable name to value template, Normalization a pointer.
Tool(name, version, url, env, norm) ==
    [Name |-> name, Version |-> version, URL |-> url, Env |-> env, Normalization |-> norm]

NoEnv == <<>>
V125 == <<"1", ".", "25">>
V124 == <<"1", ".", "24">>

\* the README's go entry
GoA == Tool(<<"go">>, V125,
            <<"https:", "/", "dl", "/", "go", "{{.version}}", ".", "{{.os}}", "-", "{{.arch}}",
              ".", "tar", ".", "gz">>,
            [k \in {"GOROOT", "PATH"} |->
                IF k = "PATH" THEN <<"storage", "/", "go@", "{{.version}}", "/", "bin">>
                ELSE <<"storage", "/", "go@", "{{.version}}">>],
            NoNormalization)
\* another version of the same tool, packed as .tar.xz, with the README's
\* amd64 -> x64 normalization
GoB == Tool(<<"go">>, V124,
            <<"https:", "/", "dist", "/", "go-", "{{.version}}", "-", "{{.os}}", "-", "{{.arch}}",
              ".", "tar", ".", "xz">>,
            [k \in {"PATH"} |-> <<"storage", "/", "go@", "{{.version}}", "/", "bin">>],
            [present |-> TRUE, Arch |-> [a \in {"amd64"} |-> "x64"], OS |-> <<>>])
\* the same name and version as GoA, from a mirror that serves a .tgz
GoA2 == Tool(<<"go">>, V125,
             <<"https:", "/", "mirror", "/", "go", ".", "tgz">>,
             [k \in {"PATH"} |-> <<"mirror", "/", "bin">>],
             [present |-> TRUE, Arch |-> <<>>, OS |-> [o \in {"darwin"} |-> "macos"]])
\* the same name and version as GoA, with a url template that does not parse
GoBad == Tool(<<"go">>, V125, <<"https:", "/", "dl", "/", "{{">>, NoEnv, NoNormalization)
\* a tool whose release is a .zip
Zip == Tool(<<"node">>, <<"22">>,
            <<"https:", "/", "dist", "/", "node-", "{{.version}}", ".", "zip">>,
            NoEnv, NoNormalization)
\* what an earlier run of an older manifest installed: GoA's name and
\* version, another artifact
GoOld == Tool(<<"go">>, V125, <<"https:", "/", "old", "/", "go", ".", "tgz">>,
              [k \in {"PATH"} |-> <<"old", "/", "bin">>], NoNormalization)

SetupTools == {GoA, GoB, GoA2, GoBad, Zip}

SeqsUpTo(S, n) == UNION {[1..m -> S] : m \in 0..n}

\* toolenv.yml: absent, not decodable, or a Config
ManifestFiles ==
    {[kind |-> "absent", tools |-> <<>>], [kind |-> "malformed", tools |-> <<>>]} \cup
    [kind : {"ok"}, tools : SeqsUpTo(SetupTools, MaxTools)]

\* ---------------------------------------------------------- file system
\* install_dir: filepath.Join(storage_dir, Sprintf("%s@%s", Name, Version))
InstallDirByName(tool) == tool.Name

InstallDir(tool) == tool.Name \o <<"@">> \o tool.Version

\* os.RemoveAll(storage_dir), on storage's files and directories
RemoveAllKeep(entries) == entries

RemoveAll(entries) == {}

\* the members of the archive a URL serves, after --strip-components=1; the
\* remote serves one artifact per URL
ArchiveMembers(url) ==
    CASE url # <<>> /\ url[Len(url)] = "xz" -> {"bin"}
      [] url # <<>> /\ url[Len(url)] = "gz" -> {"bin", "pkg"}
      [] OTHER -> {"bin", "doc"}

\* tar -x: the members `done` are written over what the directory holds
Untar(files, dir, url, done) ==
    {f \in files : ~(f.dir = dir /\ f.path \in done)} \cup
    {[dir |-> dir, path |-> p, content |-> url] : p \in done}

\* filepath.Ext: the suffix from the last "." of the last path element
RECURSIVE filepathExt(_)
filepathExt(path) ==
    IF path = <<>> \/ path[Len(path)] = "/" THEN <<>>
    ELSE IF path[Len(path)] = "." THEN <<".">>
    ELSE LET e == filepathExt(SubSeq(path, 1, Len(path) - 1))
         IN  IF e = <<>> THEN <<>> ELSE e \o <<path[Len(path)]>>

\* the switch of installTool (197-204): which extraction runs
ExtractorBySuffixAtom(extension) ==
    CASE extension # <<>> /\ extension[Len(extension)] \in {"gz", "tgz"} -> "extractTarGz"
      [] extension # <<>> /\ extension[Len(extension)] = "xz" -> "extractTarXz"
      [] OTHER -> "unsupported"

Extractor(extension) ==
    CASE extension \in {<<".", "gz">>, <<".", "tgz">>} -> "extractTarGz"
      [] extension = <<".", "xz">> -> "extractTarXz"
      [] OTHER -> "unsupported"

\* the deferred calls of installTool (187-189): Close, then os.Remove
DeferredKeep(tmps, name) == tmps

Deferred(tmps, name) == tmps \ {name}

TmpNames == {"toolenv-download-1", "toolenv-download-2"}

\* ------------------------------------------- Activation Script Generator
\* A script is a sequence of commands [op, name, words, body]; words are the
\* atoms of a double-quoted string, "$NAME" a parameter expansion.
Cmd(op, name, words) == [op |-> op, name |-> name, words |-> words, body |-> <<>>]
Func(name, body) == [op |-> "func", name |-> name, words |-> <<>>, body |-> body]

Quote == "\""
EscapedQuote == "\\\""

\* strings.ReplaceAll(value, `"`, `\"`)
Escape(value) == [k \in 1..Len(value) |-> IF value[k] = Quote THEN EscapedQuote ELSE value[k]]

Perms(S) == {o \in [1..Cardinality(S) -> S] : \A a, b \in DOMAIN o : o[a] = o[b] => a = b}

\* one iteration order of every tool's Env map (range over a Go map)
Orders(tools) ==
    {o \in [1..Len(tools) -> UNION {Perms(DOMAIN tools[k].Env) : k \in 1..Len(tools)}] :
        \A k \in 1..Len(tools) : o[k] \in Perms(DOMAIN tools[k].Env)}

\* lines 251-255; the variant that appends the segment comes first
ExportLineAppend(key, value) ==
    IF key = "PATH"
    THEN Cmd("export", "PATH", <<"$PATH", ":", "$TOOLENV_DIR", "/">> \o value)
    ELSE Cmd("export", key, <<"$TOOLENV_DIR", "/">> \o value)

ExportLine(key, value) ==
    IF key = "PATH"
    THEN Cmd("export", "PATH", <<"$TOOLENV_DIR", "/">> \o value \o <<":", "$PATH">>)
    ELSE Cmd("export", key, <<"$TOOLENV_DIR", "/">> \o value)

EnvValue(tool, key) == Execute(Escape(tool.Env[key]), [version |-> tool.Version])

\* the first template error the loop of 231-257 can meet, Nil if none
EnvErrs(tools) ==
    UNION {{TemplateErr(Escape(tools[k].Env[key])) : key \in DOMAIN tools[k].Env} :
              k \in 1..Len(tools)} \ {Nil}

\* the text generateActivationScript builds under the orders o (first loop)
\* and u (second loop)
ScriptText(env_name, tools, o, u) ==
    <<Cmd("comment", "", <<>>), Cmd("comment", "", <<>>),
      Cmd("export", "TOOLENV_DIR", <<"$(pwd)", "/", env_name>>),
      Cmd("export", "PREVIOUS_PATH", <<"$PATH">>)>>
    \o Flatten([k \in 1..Len(tools) |->
            [j \in 1..Len(o[k]) |-> ExportLine(o[k][j], EnvValue(tools[k], o[k][j]))]])
    \o <<Cmd("export", "OLD_PS1", <<"$PS1">>),
         Cmd("export", "PS1", <<"(toolenv:env) ", "$PS1">>),
         Func("deactivate",
            <<Cmd("export", "PS1", <<"$OLD_PS1">>), Cmd("unset", "OLD_PS1", <<>>)>>
            \o Flatten([k \in 1..Len(tools) |->
                    SelectSeq([j \in 1..Len(u[k]) |-> Cmd("unset", u[k][j], <<>>)],
                              LAMBDA c : c.name # "PATH")])
            \o <<Cmd("export", "PATH", <<"$PREVIOUS_PATH">>),
                 Cmd("unset", "PREVIOUS_PATH", <<>>),
                 Cmd("unset", "TOOLENV_DIR", <<>>),
                 Cmd("unsetf", "deactivate", <<>>)>>)>>

ScriptsOf(env_name, tools) ==
    {ScriptText(env_name, tools, o, u) : o \in Orders(tools), u \in Orders(tools)}

NoFile == [present |-> FALSE, text |-> <<>>]

\* os.WriteFile(activate_dir, text): on success the file holds text
WriteFileKeepExisting(old, text) == IF old.present THEN old ELSE [present |-> TRUE, text |-> text]

WriteFile(old, text) == [present |-> TRUE, text |-> text]

\* ------------------------------------------------------------- the shell
\* What bash does with the commands of the script.
ShellNames == {"PATH", "PS1", "OLD_PS1", "PREVIOUS_PATH", "TOOLENV_DIR", "GOROOT", "EDITOR"}
FuncNames == {"deactivate"}
Unset == [set |-> FALSE, val |-> <<>>]
Value(v) == [set |-> TRUE, val |-> v]
NoFunc == [defined |-> FALSE, body |-> <<>>]
Cwd == <<"/work">>

Param(w) ==
    CASE w = "$PATH" -> "PATH"
      [] w = "$PS1" -> "PS1"
      [] w = "$OLD_PS1" -> "OLD_PS1"
      [] w = "$PREVIOUS_PATH" -> "PREVIOUS_PATH"
      [] w = "$TOOLENV_DIR" -> "TOOLENV_DIR"
      [] OTHER -> ""

\* the expansion of a double-quoted word: an unset parameter expands to
\* nothing, \" to the quote
Expand(words, env) ==
    Flatten([k \in 1..Len(words) |->
        CASE Param(words[k]) # "" -> env[Param(words[k])].val
          [] words[k] = "$(pwd)" -> Cwd
          [] words[k] = EscapedQuote -> <<Quote>>
          [] OTHER -> <<words[k]>>])

\* one command; `unset name` removes the variable, or, when no variable of
\* that name is set, the function
Exec(c, st) ==
    CASE c.op = "export" ->
            [st EXCEPT !.env[c.name] = Value(Expand(c.words, st.env))]
      [] c.op = "unset" ->
            IF st.env[c.name].set THEN [st EXCEPT !.env[c.name] = Unset]
            ELSE IF c.name \in FuncNames THEN [st EXCEPT !.funcs[c.name] = NoFunc]
            ELSE st
      [] c.op = "unsetf" -> [st EXCEPT !.funcs[c.name] = NoFunc]
      [] c.op = "func" -> [st EXCEPT !.funcs[c.name] = [defined |-> TRUE, body |-> c.body]]
      [] OTHER -> st

RECURSIVE Run(_, _)
Run(cmds, st) == IF cmds = <<>> THEN st ELSE Run(Tail(cmds), Exec(Head(cmds), st))

\* --------------------------------------------------------------- state
VARIABLES
    \* the disk and the host
    manifestFile,   \* ./toolenv.yml
    binDir,         \* whether env/bin exists
    storageDirs,    \* the directories under env/storage
    storageFiles,   \* the files under env/storage: [dir, path, content]
    activate,       \* env/bin/activate: [present, text]
    tmpFiles,       \* the scratch files in os.TempDir()
    GOOS, GOARCH,   \* runtime.GOOS, runtime.GOARCH
    \* setup
    pc,             \* where setup (and installTool inside it) stands
    runs,           \* how many times setup has been invoked
    config,         \* config.Tools
    i,              \* the position of `tool` in config.Tools
    url,            \* url (setup) = url (installTool)
    install_dir,
    tmp,            \* tmp_file.Name()
    sb,             \* the text generateActivationScript built
    err,            \* the error setup returned, Nil for nil
    hint,           \* whether "Activate with: ..." was printed
    ran,            \* the extraction function the running installTool called
    \* history of the current run
    log,            \* the stages started, in order: [idx, stage]
    errs,           \* the errors the stages raised, in order
    activate0,      \* env/bin/activate when the run began
    prev,           \* the previous run's outcome: [ok, dirs, files]
    \* normalizeSystem, alone
    nsIn,           \* the inputs of one normalizeSystem call
    nsOut,          \* its result <<os_name, arch>>, or <<>> before the call
    \* the shell that sources env/bin/activate
    shEnv,          \* its variables: name -> [set, val]
    shFuncs,        \* its functions: name -> [defined, body]
    shPre,          \* shEnv before the script was sourced
    shPhase         \* "fresh", "active" (sourced), "deactivated"; "off" if none

diskVars == <<manifestFile, binDir, storageDirs, storageFiles, activate, tmpFiles, GOOS, GOARCH>>
runVars == <<pc, runs, config, i, url, install_dir, tmp, sb, err, hint, ran>>
histVars == <<log, errs, activate0, prev>>
normVars == <<nsIn, nsOut>>
shellVars == <<shEnv, shFuncs, shPre, shPhase>>
sideVars == <<normVars, shellVars>>
vars == <<diskVars, runVars, histVars, normVars, shellVars>>

Stage(idx, stage) == [idx |-> idx, stage |-> stage]
Raised(idx, stage, e) == [idx |-> idx, stage |-> stage, err |-> e]

\* ----------------------------------------------------------------- setup
\* line 79-81: a failed buildURL returns; the variant that goes on comes first
AfterBuildURLIgnoreErr(e) == "mkdir"

AfterBuildURL(e) == IF e # Nil THEN "done" ELSE "mkdir"

\* line 91-93: a failed installTool returns; the variant that goes on with
\* the next tool comes first
AfterInstallContinue(e) == "loop"

AfterInstall(e) == IF e # Nil THEN "done" ELSE "loop"

\* setup is called and loadEnv runs (55-59, 108-123)
LoadEnv ==
    /\ pc \in {"idle", "done"}
    /\ runs < MaxRuns
    /\ runs' = runs + 1
    /\ prev' = [ok |-> pc = "done" /\ err = Nil, dirs |-> storageDirs, files |-> storageFiles]
    /\ activate0' = activate
    /\ log' = <<Stage(0, "load")>>
    /\ i' = 1 /\ url' = <<>> /\ install_dir' = <<>> /\ tmp' = "" /\ sb' = <<>>
    /\ hint' = FALSE /\ ran' = ""
    /\ IF manifestFile.kind = "ok"
       THEN /\ config' = manifestFile.tools
            /\ err' = Nil /\ errs' = <<>>
            /\ pc' = "mkbin"
       ELSE /\ config' = <<>>
            /\ err' = (IF manifestFile.kind = "absent" THEN "open" ELSE "parse")
            /\ errs' = <<Raised(0, "load", err')>>
            /\ pc' = "done"
    /\ UNCHANGED <<diskVars, sideVars>>

\* os.MkdirAll(bin_dir) (64-66)
MkBinDir ==
    /\ pc = "mkbin"
    /\ log' = Append(log, Stage(0, "mkbin"))
    /\ \E ok \in BOOLEAN :
        IF ok
        THEN /\ binDir' = TRUE
             /\ pc' = "reset"
             /\ UNCHANGED <<err, errs>>
        ELSE /\ err' = "mkbin" /\ errs' = Append(errs, Raised(0, "mkbin", "mkbin"))
             /\ pc' = "done"
             /\ UNCHANGED binDir
    /\ UNCHANGED <<manifestFile, storageDirs, storageFiles, activate, tmpFiles, GOOS, GOARCH,
                   runs, config, i, url, install_dir, tmp, sb, hint, ran,
                   activate0, prev, sideVars>>

\* os.RemoveAll(storage_dir) (70-72); a failure leaves storage as it was, or
\* with its files gone and its directories left
ResetStorage ==
    /\ pc = "reset"
    /\ log' = Append(log, Stage(0, "reset"))
    /\ \E outcome \in {"ok", "untouched", "partial"} :
        IF outcome = "ok"
        THEN /\ storageDirs' = RemoveAll(storageDirs)
             /\ storageFiles' = RemoveAll(storageFiles)
             /\ pc' = "loop"
             /\ UNCHANGED <<err, errs>>
        ELSE /\ storageFiles' = (IF outcome = "partial" THEN {} ELSE storageFiles)
             /\ err' = "cleanup" /\ errs' = Append(errs, Raised(0, "reset", "cleanup"))
             /\ pc' = "done"
             /\ UNCHANGED storageDirs
    /\ UNCHANGED <<manifestFile, binDir, activate, tmpFiles, GOOS, GOARCH,
                   runs, config, i, url, install_dir, tmp, sb, hint, ran,
                   activate0, prev, sideVars>>

\* the loop body up to buildURL (74-81)
BuildURL ==
    /\ pc = "loop"
    /\ i <= Len(config)
    /\ log' = Append(log, Stage(i, "url"))
    /\ LET tool == config[i]
           sys == normalizeSystem(tool.Normalization, GOOS, GOARCH)
           r == buildURL(tool.URL, tool.Version, sys[1], sys[2])
       IN  /\ url' = r.url
           /\ pc' = AfterBuildURL(r.err)
           /\ IF r.err # Nil
              THEN err' = "url" /\ errs' = Append(errs, Raised(i, "url", "url"))
              ELSE UNCHANGED <<err, errs>>
    /\ UNCHANGED <<diskVars, runs, config, i, install_dir, tmp, sb, hint, ran,
                   activate0, prev, sideVars>>

\* os.MkdirAll(install_dir) (83-89)
MkInstallDir ==
    /\ pc = "mkdir"
    /\ log' = Append(log, Stage(i, "mkdir"))
    /\ install_dir' = InstallDir(config[i])
    /\ \E ok \in BOOLEAN :
        IF ok
        THEN /\ storageDirs' = storageDirs \cup {install_dir'}
             /\ pc' = "get"
             /\ UNCHANGED <<err, errs>>
        ELSE /\ err' = "mkdir" /\ errs' = Append(errs, Raised(i, "mkdir", "mkdir"))
             /\ pc' = "done"
             /\ UNCHANGED storageDirs
    /\ UNCHANGED <<manifestFile, binDir, storageFiles, activate, tmpFiles, GOOS, GOARCH,
                   runs, config, i, url, tmp, sb, hint, ran, activate0, prev, sideVars>>

\* installTool returns e to setup (91-95): the deferred calls have run
InstallReturns(e) ==
    /\ pc' = AfterInstall(e)
    /\ i' = IF pc' = "loop" THEN i + 1 ELSE i
    /\ IF e # Nil
       THEN err' = e /\ errs' = Append(errs, Raised(i, "install", e))
       ELSE UNCHANGED <<err, errs>>

\* installTool: http.Get and the status check (164-177)
InstallGet ==
    /\ pc = "get"
    /\ log' = Append(log, Stage(i, "get"))
    /\ ran' = ""
    /\ \E outcome \in {"ok", "transport", "status"} :
        IF outcome = "ok"
        THEN /\ pc' = "temp"
             /\ UNCHANGED <<i, err, errs>>
        ELSE InstallReturns(outcome)
    /\ UNCHANGED <<diskVars, runs, config, url, install_dir, tmp, sb, hint,
                   activate0, prev, sideVars>>

\* installTool: os.CreateTemp and the three defers (179-189)
InstallCreateTemp ==
    /\ pc = "temp"
    /\ log' = Append(log, Stage(i, "temp"))
    /\ \/ \E name \in TmpNames \ tmpFiles :
            /\ tmp' = name
            /\ tmpFiles' = tmpFiles \cup {name}
            /\ pc' = "copy"
            /\ UNCHANGED <<i, err, errs>>
       \/ /\ InstallReturns("temp")
          /\ UNCHANGED <<tmp, tmpFiles>>
    /\ UNCHANGED <<manifestFile, binDir, storageDirs, storageFiles, activate, GOOS, GOARCH,
                   runs, config, url, install_dir, sb, hint, ran, activate0, prev, sideVars>>

\* installTool: io.Copy (191-193)
InstallCopy ==
    /\ pc = "copy"
    /\ log' = Append(log, Stage(i, "copy"))
    /\ \E ok \in BOOLEAN :
        IF ok
        THEN /\ pc' = "extract"
             /\ UNCHANGED <<i, err, errs, tmpFiles>>
        ELSE /\ tmpFiles' = Deferred(tmpFiles, tmp)
             /\ InstallReturns("copy")
    /\ UNCHANGED <<manifestFile, binDir, storageDirs, storageFiles, activate, GOOS, GOARCH,
                   runs, config, url, install_dir, tmp, sb, hint, ran, activate0, prev, sideVars>>

\* installTool: the switch on filepath.Ext(url) and the extraction (195-219);
\* a failing tar has written some of the members
InstallExtract ==
    /\ pc = "extract"
    /\ log' = Append(log, Stage(i, "extract"))
    /\ LET which == Extractor(filepathExt(url))
       IN  IF which = "unsupported"
           THEN /\ ran' = ""
                /\ InstallReturns("unsupported")
                /\ UNCHANGED storageFiles
           ELSE /\ ran' = which
                /\ \E done \in SUBSET ArchiveMembers(url) :
                    /\ storageFiles' = Untar(storageFiles, install_dir, url, done)
                    /\ InstallReturns(IF done = ArchiveMembers(url) THEN Nil ELSE "tar")
    /\ tmpFiles' = Deferred(tmpFiles, tmp)
    /\ UNCHANGED <<manifestFile, binDir, storageDirs, activate, GOOS, GOARCH,
                   runs, config, url, install_dir, tmp, sb, hint, activate0, prev, sideVars>>

\* generateActivationScript and the two final prints (98-105, 221-282); a
\* failing os.WriteFile leaves the file as it was or truncated
Generate ==
    /\ pc = "loop"
    /\ i > Len(config)
    /\ log' = Append(log, Stage(0, "gen"))
    /\ pc' = "done"
    /\ IF EnvErrs(config) # {}
       THEN /\ \E e \in EnvErrs(config) :
                err' = e /\ errs' = Append(errs, Raised(0, "gen", e))
            /\ UNCHANGED <<sb, activate, hint>>
       ELSE \E text \in ScriptsOf("env", config) :
            /\ sb' = text
            /\ \E outcome \in {"ok", "unopened", "truncated"} :
                IF outcome = "ok"
                THEN /\ activate' = WriteFile(activate, text)
                     /\ hint' = TRUE
                     /\ UNCHANGED <<err, errs>>
                ELSE /\ activate' = (IF outcome = "truncated"
                                     THEN [present |-> TRUE, text |-> <<>>] ELSE activate)
                     /\ err' = "write" /\ errs' = Append(errs, Raised(0, "gen", "write"))
                     /\ UNCHANGED hint
    /\ UNCHANGED <<manifestFile, binDir, storageDirs, storageFiles, tmpFiles, GOOS, GOARCH,
                   runs, config, i, url, install_dir, tmp, ran, activate0, prev, sideVars>>

\* what a run of setup on an empty storage leaves when it succeeds
RECURSIVE Installed(_, _, _, _)
Installed(tools, os_, arch_, acc) ==
    IF tools = <<>> THEN acc
    ELSE LET tool == Head(tools)
             sys == normalizeSystem(tool.Normalization, os_, arch_)
             u == buildURL(tool.URL, tool.Version, sys[1], sys[2]).url
             d == InstallDir(tool)
         IN  Installed(Tail(tools), os_, arch_,
                       [dirs |-> acc.dirs \cup {d},
                        files |-> Untar(acc.files, d, u, ArchiveMembers(u))])

EmptyStorage == [dirs |-> {}, files |-> {}]

\* the disk before the first run: nothing, or what a successful run of the
\* manifest <<GoOld>> left
PriorDisks ==
    {[binDir |-> FALSE, storage |-> EmptyStorage, activate |-> NoFile]} \cup
    {[binDir |-> TRUE, storage |-> Installed(<<GoOld>>, os_, arch_, EmptyStorage),
      activate |-> WriteFile(NoFile, text)] :
        text \in ScriptsOf("env", <<GoOld>>), os_ \in {"linux"}, arch_ \in {"amd64"}}

\* the hosts setup is run on: one whose arch GoB's normalization maps, one
\* whose os GoA2's normalization maps
HostPlatforms == {<<"linux", "amd64">>, <<"darwin", "arm64">>}

NormIdle ==
    /\ nsIn = [spec |-> NoNormalization, goos |-> "linux", goarch |-> "amd64"]
    /\ nsOut = <<>>

ShellOff ==
    /\ shEnv = [n \in ShellNames |-> Unset]
    /\ shFuncs = [n \in FuncNames |-> NoFunc]
    /\ shPre = shEnv
    /\ shPhase = "off"

Init ==
    /\ manifestFile \in ManifestFiles
    /\ \E d \in PriorDisks :
        /\ binDir = d.binDir
        /\ storageDirs = d.storage.dirs
        /\ storageFiles = d.storage.files
        /\ activate = d.activate
    /\ tmpFiles = {}
    /\ \E h \in HostPlatforms : GOOS = h[1] /\ GOARCH = h[2]
    /\ pc = "idle" /\ runs = 0 /\ config = <<>> /\ i = 1 /\ url = <<>> /\ install_dir = <<>>
    /\ tmp = "" /\ sb = <<>> /\ err = Nil /\ hint = FALSE /\ ran = ""
    /\ log = <<>> /\ errs = <<>> /\ activate0 = NoFile
    /\ prev = [ok |-> FALSE, dirs |-> {}, files |-> {}]
    /\ NormIdle
    /\ ShellOff

Next ==
    \/ LoadEnv
    \/ MkBinDir
    \/ ResetStorage
    \/ BuildURL
    \/ MkInstallDir
    \/ InstallGet
    \/ InstallCreateTemp
    \/ InstallCopy
    \/ InstallExtract
    \/ Generate

Spec == Init /\ [][Next]_vars

\* ---------------------------------------------- normalizeSystem, alone
SetupIdle ==
    /\ manifestFile = [kind |-> "absent", tools |-> <<>>]
    /\ binDir = FALSE /\ storageDirs = {} /\ storageFiles = {} /\ activate = NoFile
    /\ tmpFiles = {} /\ GOOS = "linux" /\ GOARCH = "amd64"
    /\ pc = "off" /\ runs = 0 /\ config = <<>> /\ i = 1 /\ url = <<>> /\ install_dir = <<>>
    /\ tmp = "" /\ sb = <<>> /\ err = Nil /\ hint = FALSE /\ ran = ""
    /\ log = <<>> /\ errs = <<>> /\ activate0 = NoFile
    /\ prev = [ok |-> FALSE, dirs |-> {}, files |-> {}]

InitNorm ==
    /\ nsIn \in [spec : Normalizations, goos : GOOSValues, goarch : GOARCHValues]
    /\ nsOut = <<>>
    /\ SetupIdle
    /\ ShellOff

Normalize ==
    /\ nsOut = <<>>
    /\ nsOut' = normalizeSystem(nsIn.spec, nsIn.goos, nsIn.goarch)
    /\ UNCHANGED <<nsIn, diskVars, runVars, histVars, shellVars>>

NextNorm == Normalize

SpecNorm == InitNorm /\ [][NextNorm]_vars

\* -------------------------------------------------- installTool, alone
\* the resolved URLs installTool is called with
URLPrefixes ==
    {<<"https:", "/", "h", "/", "tool">>,
     <<"https:", "/", "h", ".", "io", "/", "tool">>,
     <<"https:", "/", "h", "/", "tool", ".", "tar">>,
     <<"https:", "/", "h", "/", "tool-", "1", ".", "0">>}
URLSuffixes ==
    {<<>>, <<".", "tgz">>, <<".", "gz">>, <<".", "xz">>, <<".", "zip">>, <<".">>,
     <<".", "tgz", "?dl">>, <<".", "TGZ">>, <<"-", "gz">>, <<"xz">>, <<".", "tgz", "/">>,
     <<".", "xz", "/", "download">>}
InstallURLs == {p \o x : p \in URLPrefixes, x \in URLSuffixes}

\* setup has created the install directory and calls installTool(url, dir)
InitInstall ==
    /\ url \in InstallURLs
    /\ install_dir = <<"tool", "@", "1">>
    /\ storageDirs = {install_dir}
    /\ storageFiles = {}
    /\ prev = [ok |-> FALSE, dirs |-> storageDirs, files |-> storageFiles]
    /\ manifestFile = [kind |-> "absent", tools |-> <<>>]
    /\ binDir = TRUE /\ activate = NoFile /\ activate0 = NoFile
    /\ tmpFiles = {} /\ GOOS = "linux" /\ GOARCH = "amd64"
    /\ pc = "get" /\ runs = 1 /\ config = <<>> /\ i = 1
    /\ tmp = "" /\ sb = <<>> /\ err = Nil /\ hint = FALSE /\ ran = ""
    /\ log = <<>> /\ errs = <<>>
    /\ NormIdle
    /\ ShellOff

NextInstall ==
    \/ InstallGet
    \/ InstallCreateTemp
    \/ InstallCopy
    \/ InstallExtract

SpecInstall == InitInstall /\ [][NextInstall]_vars

\* --------------------------------------- the activation script, sourced
\* a tool that exports a variable named like one the script keeps for itself
Clash == Tool(<<"pathman">>, <<"1">>, <<"https:", "/", "dist", "/", "p", ".", "tgz">>,
              [k \in {"PREVIOUS_PATH"} |-> <<"storage", "/", "pathman">>], NoNormalization)
\* a tool whose value has a double quote and a key the data lacks
Quoted == Tool(<<"ed">>, <<"2">>, <<"https:", "/", "dist", "/", "ed", ".", "tar", ".", "xz">>,
               [k \in {"EDITOR"} |-> <<"storage", "/", Quote, "ed", Quote, "{{.os}}", "-", "{{.version}}">>],
               NoNormalization)

ShellTools == {GoA, GoB, GoA2, Clash, Quoted}

\* the environment of the shell before it sources the script
PreEnvs ==
    {[n \in ShellNames |->
        CASE n = "PATH" -> Value(path)
          [] n = "PS1" -> ps1
          [] n = "GOROOT" -> goroot
          [] OTHER -> Unset] :
        path \in {<<"/usr/bin">>, <<"/usr/local/bin", ":", "/usr/bin">>},
        ps1 \in {Value(<<"$ ">>), Unset},
        goroot \in {Unset, Value(<<"/opt/go">>)}}

\* the stages a run whose installs all succeeded has started
LogOfInstalls(tools) ==
    <<Stage(0, "load"), Stage(0, "mkbin"), Stage(0, "reset")>> \o
    Flatten([k \in 1..Len(tools) |->
        [j \in 1..6 |-> Stage(k, <<"url", "mkdir", "get", "temp", "copy", "extract">>[j])]])

\* setup has installed every tool and is about to call
\* generateActivationScript; a shell waits to source the result
InitShell ==
    /\ config \in SeqsUpTo(ShellTools, MaxTools)
    /\ manifestFile = [kind |-> "ok", tools |-> config]
    /\ GOOS = "linux" /\ GOARCH = "amd64"
    /\ binDir = TRUE
    /\ storageDirs = Installed(config, GOOS, GOARCH, EmptyStorage).dirs
    /\ storageFiles = Installed(config, GOOS, GOARCH, EmptyStorage).files
    /\ activate = NoFile /\ activate0 = NoFile
    /\ tmpFiles = {}
    /\ pc = "loop" /\ runs = 1 /\ i = Len(config) + 1 /\ url = <<>> /\ install_dir = <<>>
    /\ tmp = "" /\ sb = <<>> /\ err = Nil /\ hint = FALSE /\ ran = ""
    /\ log = LogOfInstalls(config) /\ errs = <<>>
    /\ prev = [ok |-> FALSE, dirs |-> {}, files |-> {}]
    /\ NormIdle
    /\ shEnv \in PreEnvs
    /\ shFuncs = [n \in FuncNames |-> NoFunc]
    /\ shPre = shEnv
    /\ shPhase = "fresh"

\* source ./env/bin/activate
Source ==
    /\ shPhase = "fresh"
    /\ pc = "done"
    /\ activate.present
    /\ LET st == Run(activate.text, [env |-> shEnv, funcs |-> shFuncs])
       IN  shEnv' = st.env /\ shFuncs' = st.funcs
    /\ shPhase' = "active"
    /\ UNCHANGED <<shPre, diskVars, runVars, histVars, normVars>>

\* the user runs deactivate
Deactivate ==
    /\ shPhase = "active"
    /\ shFuncs["deactivate"].defined
    /\ LET st == Run(shFuncs["deactivate"].body, [env |-> shEnv, funcs |-> shFuncs])
       IN  shEnv' = st.env /\ shFuncs' = st.funcs
    /\ shPhase' = "deactivated"
    /\ UNCHANGED <<shPre, diskVars, runVars, histVars, normVars>>

NextShell ==
    \/ Generate
    \/ Source
    \/ Deactivate

SpecShell == InitShell /\ [][NextShell]_vars

\* ------------------------------------------------------------ properties
Returned == pc = "done"
Stages == Range(log)
LastStage == log[Len(log)]
InstallStages == {"get", "temp", "copy", "extract"}

\* C1: once a stage of setup fails (loading the manifest, resetting storage,
\* a tool's URL, its install directory, installTool), setup has returned the
\* first and only error raised, the failing stage is the last stage started
\* (none for a later tool, no generateActivationScript), and the activation
\* hint is not printed.
C1_FailureAborts ==
    errs # <<>> =>
        /\ pc = "done"
        /\ Len(errs) = 1
        /\ err = errs[1].err /\ err # Nil
        /\ LastStage.idx = errs[1].idx
        /\ IF errs[1].stage = "install" THEN LastStage.stage \in InstallStages
           ELSE LastStage.stage = errs[1].stage
        /\ \A k \in 1..Len(log) :
            /\ errs[1].idx > 0 => log[k].idx <= errs[1].idx
            /\ errs[1].stage \in {"load", "mkbin", "reset"} => log[k].idx = 0
            /\ errs[1].stage # "gen" => log[k].stage # "gen"
        /\ ~hint

C1_Witness ==
    /\ pc = "done" /\ errs # <<>>
    /\ errs[1].stage = "install" /\ errs[1].idx = 1
    /\ Len(config) = 2

\* C2: whenever installTool is not between its CreateTemp and its return (the
\* copy failed, the extension was unsupported, the extraction failed or
\* succeeded), no scratch file exists.
C2_ScratchRemoved == pc \notin {"copy", "extract"} => tmpFiles = {}

C2_Witness == pc = "done" /\ err = "tar" /\ tmp # "" /\ tmp \notin tmpFiles

UrlParseFailedAt(k) ==
    /\ pc = "done" /\ errs # <<>>
    /\ errs[1].stage = "url" /\ errs[1].idx = k
    /\ ~ParseOK(config[k].URL)

\* C3 as stated: when the url template of the tool at position k does not
\* parse, no network access was made for it and storage/<name>@<version> of
\* that tool does not exist.
C3_NoInstallDirLeft ==
    \A k \in 1..Len(config) :
        UrlParseFailedAt(k) =>
            /\ Stage(k, "get") \notin Stages
            /\ config[k].Name \o <<"@">> \o config[k].Version \notin storageDirs

\* C3 amended: when the url template of the tool at position k does not
\* parse, the run has returned with no network access and no directory
\* creation for that tool, and storage holds exactly the install directories
\* of the tools at the positions before k.
C3_NoDirCreatedForFailedTool ==
    \A k \in 1..Len(config) :
        UrlParseFailedAt(k) =>
            /\ Stage(k, "get") \notin Stages
            /\ Stage(k, "mkdir") \notin Stages
            /\ storageDirs = {config[j].Name \o <<"@">> \o config[j].Version : j \in 1..(k - 1)}

C3_Witness == Len(config) = 2 /\ UrlParseFailedAt(2) /\ storageFiles # {}

\* C4: after a successful run, storage is exactly what a run on an empty
\* directory yields, whatever was on disk before, and when the previous run
\* succeeded too it is what that run left.
C4_Idempotent ==
    (pc = "done" /\ err = Nil) =>
        LET fresh == Installed(config, GOOS, GOARCH, EmptyStorage)
        IN  /\ storageDirs = fresh.dirs
            /\ storageFiles = fresh.files
            /\ prev.ok => (storageDirs = prev.dirs /\ storageFiles = prev.files)

C4_Witness ==
    /\ pc = "done" /\ err = Nil /\ runs = 2 /\ prev.ok
    /\ Len(config) = 2 /\ storageFiles # {}

ResetDone == \E k \in 1..Len(log) : log[k].stage = "reset" /\ k < Len(log)

\* C9 as stated: after a run that got past resetting storage and ended in
\* success or in an install failure, an env/bin/activate on disk is the
\* script this run generated.
C9_ActivateIsThisRuns ==
    (pc = "done" /\ ResetDone /\ activate.present
        /\ (errs = <<>> \/ errs[1].stage = "install")) =>
        /\ Stage(0, "gen") \in Stages
        /\ activate.text = sb

\* C9 amended: after a successful run env/bin/activate is the script this
\* run generated from its manifest; a run that fails anywhere but in the
\* write of the file leaves env/bin/activate as it was when the run began.
C9_ActivateWrittenOnSuccess ==
    /\ (pc = "done" /\ err = Nil) =>
            /\ activate = [present |-> TRUE, text |-> sb]
            /\ sb \in ScriptsOf("env", config)
    /\ (pc = "done" /\ errs # <<>> /\ errs[1].err # "write") => activate = activate0

C9_Witness ==
    /\ pc = "done" /\ err = Nil
    /\ activate0.present /\ activate # activate0

NameAtVersion(tool) == tool.Name \o <<"@">> \o tool.Version

\* C10 as stated: at every call of installTool the destination directory
\* exists and is empty, and no earlier tool of the run installed into it.
C10_DirsDisjoint ==
    pc = "get" =>
        /\ install_dir \in storageDirs
        /\ \A f \in storageFiles : f.dir # install_dir
        /\ \A j \in 1..(i - 1) : NameAtVersion(config[j]) # install_dir

\* C10 amended: at every call of installTool the destination directory is
\* storage/<name>@<version> and exists, every file in storage lies in the
\* directory of an earlier tool, and the destination is empty when no
\* earlier tool has the same <name>@<version>.
C10_DisjointUnlessSameNameVersion ==
    pc = "get" =>
        /\ install_dir = NameAtVersion(config[i])
        /\ install_dir \in storageDirs
        /\ \A f \in storageFiles : \E j \in 1..(i - 1) : f.dir = NameAtVersion(config[j])
        /\ (\A j \in 1..(i - 1) : NameAtVersion(config[j]) # NameAtVersion(config[i]))
                => \A f \in storageFiles : f.dir # install_dir

C10_Witness ==
    /\ pc = "get" /\ i = 2
    /\ NameAtVersion(config[1]) # NameAtVersion(config[2])
    /\ storageFiles # {}

EndsWith(s, x) == Len(s) >= Len(x) /\ SubSeq(s, Len(s) - Len(x) + 1, Len(s)) = x

\* C7: when installTool has gone through its switch and returned, a URL
\* ending in .tgz or .gz had extractTarGz run, one ending in .xz had
\* extractTarXz run, and any other URL had no extraction run, failed as
\* unsupported and left the install directory as it was.
C7_ExtensionSelects ==
    (pc \in {"loop", "done"} /\ log # <<>> /\ LastStage.stage = "extract") =>
        LET gz == EndsWith(url, <<".", "tgz">>) \/ EndsWith(url, <<".", "gz">>)
            xz == EndsWith(url, <<".", "xz">>)
        IN  /\ gz => (ran = "extractTarGz" /\ err # "unsupported")
            /\ xz => (ran = "extractTarXz" /\ err # "unsupported")
            /\ ~(gz \/ xz) =>
                (ran = "" /\ err = "unsupported" /\ storageFiles = prev.files)

C7_Witness ==
    /\ pc = "done" /\ err = "unsupported"
    /\ EndsWith(url, <<".", "zip">>)
    /\ log # <<>> /\ LastStage.stage = "extract"

\* C8: the arch normalizeSystem returns is the record's mapping of the
\* detected arch if it has one and the detected arch otherwise, the os
\* likewise, and neither changes when the other axis's detected value and
\* mapping are replaced by any other.
C8_AxesIndependent ==
    nsOut # <<>> =>
        LET s == nsIn.spec
        IN  /\ nsOut[2] = IF s.present /\ nsIn.goarch \in DOMAIN s.Arch
                          THEN s.Arch[nsIn.goarch] ELSE nsIn.goarch
            /\ nsOut[1] = IF s.present /\ nsIn.goos \in DOMAIN s.OS
                          THEN s.OS[nsIn.goos] ELSE nsIn.goos
            /\ \A g \in GOOSValues, m \in PartialMaps(GOOSValues, MappedOS) :
                normalizeSystem([s EXCEPT !.OS = m], g, nsIn.goarch)[2] = nsOut[2]
            /\ \A g \in GOARCHValues, m \in PartialMaps(GOARCHValues, MappedArch) :
                normalizeSystem([s EXCEPT !.Arch = m], nsIn.goos, g)[1] = nsOut[1]

C8_Witness ==
    /\ nsOut = <<"linux", "x64">>
    /\ nsIn.goos = "linux" /\ nsIn.goarch = "amd64"
    /\ nsIn.spec.present /\ DOMAIN nsIn.spec.OS = {"darwin"}

OccursAt(s, x, p) == p >= 1 /\ p + Len(x) - 1 <= Len(s) /\ SubSeq(s, p, p + Len(x) - 1) = x

PathTools == {k \in 1..Len(config) : "PATH" \in DOMAIN config[k].Env}
Segment(k) ==
    Cwd \o <<"/", "env", "/">> \o Execute(config[k].Env["PATH"], [version |-> config[k].Version])
    \o <<":">>

\* C6: in a shell that has sourced the script this run wrote, PATH ends with
\* the PATH from before, every PATH-declaring tool's segment stands ahead of
\* that, and of two such tools the later-declared one's segment stands ahead
\* of the earlier-declared one's.
C6_LaterToolFirst ==
    (shPhase = "active" /\ activate = [present |-> TRUE, text |-> sb] /\ sb # <<>>) =>
        LET path == shEnv["PATH"].val
            old == Len(path) - Len(shPre["PATH"].val) + 1
        IN  /\ OccursAt(path, shPre["PATH"].val, old)
            /\ \A a \in PathTools : \E q \in 1..Len(path) :
                    OccursAt(path, Segment(a), q) /\ q + Len(Segment(a)) <= old
            /\ \A a, b \in PathTools : a < b =>
                    \E p, q \in 1..Len(path) :
                        /\ OccursAt(path, Segment(b), p)
                        /\ OccursAt(path, Segment(a), q)
                        /\ p + Len(Segment(b)) <= q
                        /\ q + Len(Segment(a)) <= old

C6_Witness ==
    /\ shPhase = "active" /\ activate = [present |-> TRUE, text |-> sb] /\ sb # <<>>
    /\ Len(config) = 2 /\ PathTools = {1, 2}
    /\ Segment(1) # Segment(2)

Exported == UNION {DOMAIN config[k].Env : k \in 1..Len(config)} \ {"PATH"}

\* C5: in a shell that sourced the script this run wrote and then ran
\* deactivate, PATH is set to the value it had before sourcing, PS1 expands
\* to what it expanded to before, every non-PATH variable the script
\* exported for a tool is unset, and PREVIOUS_PATH, OLD_PS1, TOOLENV_DIR and
\* the function deactivate are gone.
C5_DeactivateRestores ==
    (shPhase = "deactivated" /\ activate = [present |-> TRUE, text |-> sb] /\ sb # <<>>) =>
        /\ shEnv["PATH"] = shPre["PATH"]
        /\ shEnv["PS1"].val = shPre["PS1"].val
        /\ \A key \in Exported : ~shEnv[key].set
        /\ \A n \in {"PREVIOUS_PATH", "OLD_PS1", "TOOLENV_DIR"} : ~shEnv[n].set
        /\ ~shFuncs["deactivate"].defined

\* what does hold of deactivate: the same, for a manifest that exports none
\* of the names the script keeps for itself
DeactivateRestoresIfNoClash ==
    (shPhase = "deactivated" /\ activate = [present |-> TRUE, text |-> sb] /\ sb # <<>>
        /\ Exported \cap {"PREVIOUS_PATH", "OLD_PS1", "TOOLENV_DIR", "PS1"} = {}) =>
        /\ shEnv["PATH"] = shPre["PATH"]
        /\ shEnv["PS1"].val = shPre["PS1"].val
        /\ \A key \in Exported : ~shEnv[key].set
        /\ \A n \in {"PREVIOUS_PATH", "OLD_PS1", "TOOLENV_DIR"} : ~shEnv[n].set
        /\ ~shFuncs["deactivate"].defined

====
